---- MODULE Spec2Model ----
(***************************************************************************)
(* Parcel enrichment server (server.py, app.py, analyzer.py,               *)
(* agent_tools.py): the shared in-memory parcel table GLOBAL_GDF, the      *)
(* durable file BASE_GEOJSON, the startup cache PARCELS_JSON, the lock     *)
(* DATA_LOCK, and the request handlers agent_fetch, upload_file and        *)
(* api_parcels running on concurrent request threads.                      *)
(*                                                                         *)
(* app.py is the single-commune predecessor of server.py: its agent_fetch  *)
(* and upload_file are line-for-line the ones of server.py, and its table  *)
(* is loaded from the base file alone, which is the data directory with no *)
(* further cadastre file below.                                            *)
(*                                                                         *)
(* Optional values (Python None / pandas NaN) are sequences of length 0 or *)
(* 1: None is << >>, the value v is << v >>.                               *)
(***************************************************************************)
EXTENDS Integers, Sequences, FiniteSets, TLC

VARIABLES
    GLOBAL_GDF,    \* the in-memory table: [isNone, rows], each row with its index label
    BASE_GEOJSON,  \* the durable file: [exists, rows], rows without labels
    PARCELS_JSON,  \* the serialised table computed once at startup, served by api_parcels
    DATA_LOCK,     \* "free" or the thread holding the lock
    fetch,         \* per request thread: the locals of agent_fetch and its position
    upload,        \* the upload thread: the locals of upload_file / enrich_data
    loaded_ids,    \* history: the ids held by the table after the initial load
    synced,        \* history: a write returned success and no step of a write ran since
    last_writer,   \* history: the thread whose write phase set fields last
    call           \* the last direct call of a function of agent_tools.py / analyzer.py

vars == << GLOBAL_GDF, BASE_GEOJSON, PARCELS_JSON, DATA_LOCK, fetch, upload,
           loaded_ids, synced, last_writer, call >>

-----------------------------------------------------------------------------
(* Bounds *)

MaxUploads == 1

Threads == {"t1", "t2"}

-----------------------------------------------------------------------------
(* Optional values *)

None == << >>
Some(v) == << v >>

\* The number that tells the answers given to one thread from those given to another.
Tag(c) == IF c = "t1" THEN 1 ELSE 2

-----------------------------------------------------------------------------
(* Rows and files *)

\* A feature of the analysis file written by the bulk analysis: area, buildable
\* area and owner are present, the on-demand fields are not.
AnalysedFeature(i) ==
    [ id |-> Some(i), geometry |-> Some([shape |-> i, epsg |-> 4326]),
      total_area_sqm |-> Some(100), slope_mean |-> None,
      buildable_area_sqm |-> Some(0), owner_name |-> Some("Unknown"),
      address |-> None, dist_to_hub |-> None, est_price_m2 |-> None ]

\* A feature of a raw cadastre file: id and geometry only.
CadastreFeature(i) ==
    [ id |-> Some(i), geometry |-> Some([shape |-> i, epsg |-> 4326]),
      total_area_sqm |-> None, slope_mean |-> None,
      buildable_area_sqm |-> None, owner_name |-> None,
      address |-> None, dist_to_hub |-> None, est_price_m2 |-> None ]

\* The contents of ./data at startup: whether the base analysis file exists, its
\* features, and the features of the further cadastre files, in FILES order.
DataDirs ==
    { [ exists |-> FALSE, base |-> << >>, cadastre |-> << >> ],
      [ exists |-> TRUE,
        base |-> << AnalysedFeature("a"), AnalysedFeature("c") >>,
        cadastre |-> << >> ],
      [ exists |-> TRUE,
        base |-> << AnalysedFeature("a"), AnalysedFeature("b") >>,
        cadastre |-> << << CadastreFeature("b") >>,
                        << CadastreFeature("c"), CadastreFeature("d") >> >> ] }

\* The ids enrichment requests ask for ("" is a request without an id, "zz" is in
\* no file).
RequestIds == {"", "a", "c", "zz"}

WithLabel(f, l) ==
    [ label |-> l, id |-> f.id, geometry |-> f.geometry,
      total_area_sqm |-> f.total_area_sqm, slope_mean |-> f.slope_mean,
      buildable_area_sqm |-> f.buildable_area_sqm, owner_name |-> f.owner_name,
      address |-> f.address, dist_to_hub |-> f.dist_to_hub,
      est_price_m2 |-> f.est_price_m2 ]

WithoutLabel(r) ==
    [ id |-> r.id, geometry |-> r.geometry,
      total_area_sqm |-> r.total_area_sqm, slope_mean |-> r.slope_mean,
      buildable_area_sqm |-> r.buildable_area_sqm, owner_name |-> r.owner_name,
      address |-> r.address, dist_to_hub |-> r.dist_to_hub,
      est_price_m2 |-> r.est_price_m2 ]

\* gpd.read_file: the features in file order, labelled 0 .. n-1.
ReadFile(features) == [ k \in 1..Len(features) |-> WithLabel(features[k], k - 1) ]

\* GeoDataFrame.to_file(driver='GeoJSON'): the rows in table order; the index
\* labels are not written.
ToFile(rows) == [ k \in 1..Len(rows) |-> WithoutLabel(rows[k]) ]

\* GeoDataFrame.to_json(): the rows in table order, each with its label as feature id.
ToJson(rows) == rows

RECURSIVE Flatten(_)
Flatten(files) ==
    IF files = << >> THEN << >> ELSE Head(files) \o Flatten(Tail(files))

\* pd.concat(gdfs, ignore_index=True): all rows, relabelled 0 .. n-1.
Concat(files) == ReadFile(Flatten(files))

\* DataFrame.drop_duplicates(subset=['id']): the first row of every id is kept,
\* with the label it had.
DropDuplicates(rows) ==
    SelectSeq(rows, LAMBDA r :
        \A k \in 1..Len(rows) :
            (rows[k].id = r.id) => (rows[k].label >= r.label))

IdsOf(rows) == { rows[k].id : k \in 1..Len(rows) }


-----------------------------------------------------------------------------
(* Startup: server.py module level *)

\* The table built at import time from the files of the data directory.
LoadGlobalGdf(dir) ==
    IF ~dir.exists
    THEN [ isNone |-> TRUE, rows |-> << >> ]
    ELSE [ isNone |-> FALSE,
           rows |-> DropDuplicates(Concat(<< dir.base >> \o dir.cadastre)) ]

IdleFetch ==
    [ pc |-> "idle", parcel_id |-> "", idx |-> -1, geom |-> None,
      slope |-> None, address |-> None, dist |-> None, price_m2 |-> None,
      status |-> 0, remote |-> 0 ]

IdleUpload ==
    [ pc |-> "idle", gdf |-> << >>, status |-> 0, n |-> 0 ]

\* No function has been called directly.
NoCall == [ fn |-> "none", arg |-> << >>, result |-> << >> ]

Init ==
    \E dir \in DataDirs :
        /\ GLOBAL_GDF = LoadGlobalGdf(dir)
        /\ BASE_GEOJSON = [ exists |-> dir.exists, rows |-> dir.base ]
        /\ PARCELS_JSON = [ isNone |-> GLOBAL_GDF.isNone, rows |-> ToJson(GLOBAL_GDF.rows) ]
        /\ DATA_LOCK = "free"
        /\ fetch = [ c \in Threads |-> IdleFetch ]
        /\ upload = IdleUpload
        /\ loaded_ids = IdsOf(GLOBAL_GDF.rows)
        /\ synced = FALSE
        /\ last_writer = "none"
        /\ call = NoCall

-----------------------------------------------------------------------------
(* DATA_LOCK = threading.Lock() *)

LockAvailable_NoExclusion(c) == TRUE

\* Lock.acquire() returns only when no thread holds the lock.
LockAvailable(c) == DATA_LOCK = "free"

ReleaseAfterLookup_Held(c) == c

\* Leaving the first `with DATA_LOCK:` block of agent_fetch (by falling off its end
\* or by a return inside it) releases the lock.
ReleaseAfterLookup(c) == "free"

-----------------------------------------------------------------------------
(* agent_fetch *)

Target_Unfiltered(rows, parcel_id) == rows

Target_FirstRow(rows, parcel_id) == SubSeq(rows, 1, 1)

\* target = GLOBAL_GDF[GLOBAL_GDF['id'] == parcel_id]
Target(rows, parcel_id) == SelectSeq(rows, LAMBDA r : r.id = Some(parcel_id))

\* The row DataFrame.at creates when it is given a label the index does not hold:
\* every column is NaN.
EnlargedRow(idx) ==
    [ label |-> idx, id |-> None, geometry |-> None,
      total_area_sqm |-> None, slope_mean |-> None,
      buildable_area_sqm |-> None, owner_name |-> None,
      address |-> None, dist_to_hub |-> None, est_price_m2 |-> None ]

\* The write by position (.iat) instead of by label.
AtSet_ByPosition(rows, idx, col, v) ==
    [ k \in 1..Len(rows) |->
        IF k = idx + 1 THEN [ rows[k] EXCEPT ![col] = v ] ELSE rows[k] ]

\* GLOBAL_GDF.at[idx, col] = v : the row LABELLED idx gets the value; a label the
\* index does not hold is appended as a new row (setting with enlargement).
AtSet(rows, idx, col, v) ==
    IF \E k \in 1..Len(rows) : rows[k].label = idx
    THEN [ k \in 1..Len(rows) |->
             IF rows[k].label = idx THEN [ rows[k] EXCEPT ![col] = v ] ELSE rows[k] ]
    ELSE Append(rows, [ EnlargedRow(idx) EXCEPT ![col] = v ])

ShouldWrite_Always(slope) == TRUE

ShouldWrite_Truthy(slope) == slope # None /\ slope[1] # 0

\* `if slope is not None:`
ShouldWrite(slope) == slope # None

\* What the elevation probe, the reverse geocoder and the land-price query may
\* answer to thread c: unavailable, or a value. The values differ from
\* thread to thread, so that a stored value tells which call computed it; flat
\* ground gives the slope 0.0.
SlopeOutcomes(c) == { None, Some(10 * (Tag(c) - 1)) }
AddressOutcomes(c) == { None, Some(IF c = "t1" THEN "1 rue A" ELSE "2 rue B") }
PriceOutcomes(c) == { None, Some(100 * Tag(c)) }

\* get_transport_info: the rounded great-circle distance from the centroid to the
\* hub, a function of the geometry alone.
get_transport_info(geom) ==
    IF geom = None THEN None
    ELSE Some(CASE geom[1].shape = "a" -> 250
              [] geom[1].shape = "b" -> 400
              [] geom[1].shape = "c" -> 700
              [] OTHER -> 900)

SetFetch(c, r) == fetch' = [ fetch EXCEPT ![c] = r ]

\* The handler returns an error response: its locals are gone.
Answer(c, code) ==
    [ IdleFetch EXCEPT !.pc = "done", !.status = code,
                       !.parcel_id = fetch[c].parcel_id, !.remote = fetch[c].remote ]

\* Lines 186-193: the request arrives on thread c; a request without an id is
\* refused. Each thread serves one enrichment request.
StartFetch(c, id) ==
    /\ fetch[c].pc = "idle"
    /\ SetFetch(c, IF id = "" THEN [ IdleFetch EXCEPT !.pc = "done", !.status = 400 ]
                    ELSE [ IdleFetch EXCEPT !.parcel_id = id, !.pc = "lookup" ])
    /\ UNCHANGED << call, GLOBAL_GDF, BASE_GEOJSON, PARCELS_JSON, DATA_LOCK, upload,
                    loaded_ids, synced, last_writer >>

\* Line 198: `with DATA_LOCK:` entered.
AcquireLookup(c) ==
    /\ fetch[c].pc = "lookup"
    /\ LockAvailable(c)
    /\ DATA_LOCK' = c
    /\ SetFetch(c, [ fetch[c] EXCEPT !.pc = "locked_lookup" ])
    /\ UNCHANGED << call, GLOBAL_GDF, BASE_GEOJSON, PARCELS_JSON, upload,
                    loaded_ids, synced, last_writer >>

\* Lines 199-209 and the end of the with block.
Lookup(c) ==
    /\ fetch[c].pc = "locked_lookup"
    /\ LET target == Target(GLOBAL_GDF.rows, fetch[c].parcel_id) IN
         IF GLOBAL_GDF.isNone
         THEN SetFetch(c, Answer(c, 500))
         ELSE IF target = << >>
         THEN SetFetch(c, Answer(c, 404))
         ELSE SetFetch(c, [ fetch[c] EXCEPT !.pc = "compute_slope",
                                           !.geom = target[1].geometry,
                                           !.idx = target[1].label ])
    /\ DATA_LOCK' = ReleaseAfterLookup(c)
    /\ UNCHANGED << call, GLOBAL_GDF, BASE_GEOJSON, PARCELS_JSON, upload,
                    loaded_ids, synced, last_writer >>

\* Line 223: the elevation probe answers (line 224, get_owner_info, is local and
\* touches no state).
ComputeSlope(c) ==
    /\ fetch[c].pc = "compute_slope"
    /\ \E s \in SlopeOutcomes(c) :
         SetFetch(c, [ fetch[c] EXCEPT !.pc = "get_address", !.slope = s,
                                       !.remote = @ + 1 ])
    /\ UNCHANGED << call, GLOBAL_GDF, BASE_GEOJSON, PARCELS_JSON, DATA_LOCK, upload, loaded_ids, synced, last_writer >>

\* Lines 227-231: the reverse geocoder answers; the hub distance is computed locally.
GetAddress(c) ==
    /\ fetch[c].pc = "get_address"
    /\ \E a \in AddressOutcomes(c) :
         SetFetch(c, [ fetch[c] EXCEPT !.pc = "get_land_price_estimate",
                                       !.address = a,
                                       !.dist = get_transport_info(fetch[c].geom),
                                       !.remote = @ + 1 ])
    /\ UNCHANGED << call, GLOBAL_GDF, BASE_GEOJSON, PARCELS_JSON, DATA_LOCK, upload, loaded_ids, synced, last_writer >>

\* Lines 232-234 and 260-261: the land-price query answers, then the handler
\* either goes on to the write phase or answers 502.
GetLandPrice(c) ==
    /\ fetch[c].pc = "get_land_price_estimate"
    /\ \E p \in PriceOutcomes(c) :
         IF ShouldWrite(fetch[c].slope)
         THEN SetFetch(c, [ fetch[c] EXCEPT !.pc = "write", !.price_m2 = p,
                                           !.remote = @ + 1 ])
         ELSE SetFetch(c, [ fetch[c] EXCEPT !.pc = "done", !.price_m2 = p,
                                           !.remote = @ + 1, !.status = 502 ])
    /\ UNCHANGED << call, GLOBAL_GDF, BASE_GEOJSON, PARCELS_JSON, DATA_LOCK, upload, loaded_ids, synced, last_writer >>

\* Line 236: `with DATA_LOCK:` entered for the write.
AcquireWrite(c) ==
    /\ fetch[c].pc = "write"
    /\ LockAvailable(c)
    /\ DATA_LOCK' = c
    /\ SetFetch(c, [ fetch[c] EXCEPT !.pc = "set_slope_mean" ])
    /\ synced' = FALSE
    /\ UNCHANGED << call, GLOBAL_GDF, BASE_GEOJSON, PARCELS_JSON, upload,
                    loaded_ids, last_writer >>

\* One of lines 238-241: GLOBAL_GDF.at[idx, col] = the local `val`.
SetField(c, at, col, val, next) ==
    /\ fetch[c].pc = at
    /\ GLOBAL_GDF' = [ GLOBAL_GDF EXCEPT !.rows = AtSet(@, fetch[c].idx, col, val) ]
    /\ SetFetch(c, [ fetch[c] EXCEPT !.pc = next ])
    /\ synced' = FALSE
    /\ last_writer' = c
    /\ UNCHANGED << call, BASE_GEOJSON, PARCELS_JSON, DATA_LOCK, upload,
                    loaded_ids >>

SetSlopeMean(c) ==
    SetField(c, "set_slope_mean", "slope_mean", fetch[c].slope, "set_address")

SetAddress(c) ==
    SetField(c, "set_address", "address", fetch[c].address, "set_dist_to_hub")

SetDistToHub(c) ==
    SetField(c, "set_dist_to_hub", "dist_to_hub", fetch[c].dist, "set_est_price_m2")

SetEstPriceM2(c) ==
    SetField(c, "set_est_price_m2", "est_price_m2", fetch[c].price_m2, "to_file")

ReleaseAfterWrite_OnSuccessOnly(c, ok) == IF ok THEN "free" ELSE c

\* Leaving the second `with DATA_LOCK:` block of agent_fetch, by its return or by
\* the exception to_file raised, releases the lock.
ReleaseAfterWrite(c, ok) == "free"

PersistedFeatures_NoAddress(rows) ==
    [ k \in 1..Len(rows) |-> [ WithoutLabel(rows[k]) EXCEPT !.address = None ] ]

\* The features agent_fetch persists: the whole in-memory table.
PersistedFeatures(rows) == ToFile(rows)

\* Lines 244-259 and 263-265: GLOBAL_GDF.to_file(BASE_GEOJSON) under the lock. It
\* either writes the file and the handler answers 200, or raises (ok = FALSE), and
\* the handler's `except Exception` answers 500. The lock is released either way.
SaveToFile(c, ok) ==
    /\ fetch[c].pc = "to_file"
    /\ IF ok
       THEN /\ BASE_GEOJSON' = [ exists |-> TRUE,
                                 rows |-> PersistedFeatures(GLOBAL_GDF.rows) ]
            /\ SetFetch(c, [ fetch[c] EXCEPT !.pc = "done", !.status = 200 ])
            /\ synced' = TRUE
       ELSE /\ BASE_GEOJSON' = BASE_GEOJSON
            /\ SetFetch(c, Answer(c, 500))
            /\ synced' = FALSE
    /\ DATA_LOCK' = ReleaseAfterWrite(c, ok)
    /\ UNCHANGED << call, GLOBAL_GDF, PARCELS_JSON, upload, loaded_ids,
                    last_writer >>

-----------------------------------------------------------------------------
(* analyzer.py *)

\* GeoDataFrame.to_crs(epsg=...): every geometry is re-expressed in the target
\* reference system; rows, order and labels are kept.
ToCrs(rows, epsg) ==
    [ k \in 1..Len(rows) |->
        IF rows[k].geometry = None THEN rows[k]
        ELSE [ rows[k] EXCEPT !.geometry = Some([ @[1] EXCEPT !.epsg = epsg ]) ] ]

\* The uploaded layers: a raster whose zonal mean is 7 under every parcel, a zoning
\* layer that covers parcel shape "a" on 40 m2, an owner table naming the owner of "a".
UploadedPlu == {"a"}
UploadedOwners == [ i \in {"a"} |-> "Alice" ]

\* calculate_slope with a DEM path that exists: the zonal mean of every row, or,
\* when rasterio / zonal_stats raises (ok = FALSE), the table as it was.
calculate_slope(ok, rows) ==
    IF ok
    THEN [ k \in 1..Len(rows) |-> [ rows[k] EXCEPT !.slope_mean = Some(7) ] ]
    ELSE rows

\* intersection['inter_area']: the area of a row's piece inside the zoning layer.
InterArea(r) ==
    IF r.geometry # None /\ r.geometry[1].shape \in UploadedPlu THEN 40 ELSE 0

\* intersection.groupby('id')['inter_area'].sum(): the pieces of all rows of one id.
RECURSIVE GroupSum(_, _)
GroupSum(rows, id) ==
    IF rows = << >> THEN 0
    ELSE (IF Head(rows).id = id /\ id # None THEN InterArea(Head(rows)) ELSE 0)
         + GroupSum(Tail(rows), id)

\* `col in parcels_gdf.columns`: a table read from a file has the column when some
\* feature of the file gives the property.
HasColumn(rows, col) == \E k \in 1..Len(rows) : rows[k][col] # None

\* calculate_buildable. Without a zoning layer (plu_gdf None) the column is set to
\* zero only when the table has no such column, and the table is returned as it
\* is otherwise. With a zoning layer: zero everywhere when nothing intersects,
\* else the summed intersection area per id, zero where there is none.
calculate_buildable(plu_gdf, rows) ==
    IF plu_gdf = None
    THEN IF ~HasColumn(rows, "buildable_area_sqm")
         THEN [ k \in 1..Len(rows) |-> [ rows[k] EXCEPT !.buildable_area_sqm = Some(0) ] ]
         ELSE rows
    ELSE IF \A k \in 1..Len(rows) : InterArea(rows[k]) = 0
    THEN [ k \in 1..Len(rows) |-> [ rows[k] EXCEPT !.buildable_area_sqm = Some(0) ] ]
    ELSE ReadFile(ToFile(
           [ k \in 1..Len(rows) |->
               [ rows[k] EXCEPT !.buildable_area_sqm = Some(GroupSum(rows, rows[k].id)) ] ]))

\* add_owners with an owner table that exists: the owner of every id the table
\* names, "Unknown" for the others; when read_csv raises (ok = FALSE), the table
\* as it was.
add_owners(ok, rows) ==
    IF ok
    THEN ReadFile(ToFile(
           [ k \in 1..Len(rows) |->
               [ rows[k] EXCEPT !.owner_name =
                   IF rows[k].id # None /\ rows[k].id[1] \in DOMAIN UploadedOwners
                   THEN Some(UploadedOwners[rows[k].id[1]])
                   ELSE Some("Unknown") ] ]))
    ELSE rows

\* enrich_data, lines 134-154: the base file is read, reprojected, enriched with
\* the layer whose path was given (upload_file gives exactly one; a direct call
\* may give none), and reprojected back. calculate_buildable is called only when
\* a zoning path was given.
enrich_data(features, file_type, ok) ==
    LET gdf == ToCrs(ReadFile(features), 2154)
        out == CASE file_type = "dem" -> calculate_slope(ok, gdf)
                 [] file_type = "plu" -> calculate_buildable(Some(UploadedPlu), gdf)
                 [] file_type = "owners" -> add_owners(ok, gdf)
                 [] OTHER -> gdf
    IN ToCrs(out, 4326)

MaxParcels == 2

\* The tables the bulk analysis may be given: parcels whose buildable area is not
\* set, zero, or 40 m2 from an earlier analysis.
BulkFeatures ==
    { [ AnalysedFeature(i) EXCEPT !.buildable_area_sqm = b ] :
        i \in {"a", "b", "c"}, b \in { None, Some(0), Some(40) } }

BulkFiles == UNION { [ 1..n -> BulkFeatures ] : n \in 1..MaxParcels }

\* calculate_buildable is called with or without a zoning layer.
CallCalculateBuildable ==
    /\ call = NoCall
    /\ \E features \in BulkFiles : \E plu_gdf \in { None, Some(UploadedPlu) } :
         call' = [ fn |-> "calculate_buildable", arg |-> << plu_gdf, features >>,
                   result |-> calculate_buildable(plu_gdf, ToCrs(ReadFile(features), 2154)) ]
    /\ UNCHANGED << GLOBAL_GDF, BASE_GEOJSON, PARCELS_JSON, DATA_LOCK, fetch, upload,
                    loaded_ids, synced, last_writer >>

\* enrich_data is called on a base file with one layer or with none.
CallEnrichData ==
    /\ call = NoCall
    /\ \E features \in BulkFiles : \E file_type \in {"dem", "plu", "owners", "none"} :
       \E ok \in BOOLEAN :
         call' = [ fn |-> "enrich_data", arg |-> << file_type, features >>,
                   result |-> enrich_data(features, file_type, ok) ]
    /\ UNCHANGED << GLOBAL_GDF, BASE_GEOJSON, PARCELS_JSON, DATA_LOCK, fetch, upload,
                    loaded_ids, synced, last_writer >>

-----------------------------------------------------------------------------
(* upload_file *)

UploadTypes == {"dem", "plu", "owners", "other"}

\* The upload thread answers with `code` and is ready for the next upload.
Answered(code) == [ upload EXCEPT !.pc = "idle", !.status = code, !.gdf = << >> ]

\* Lines 268-306 and analyzer.enrich_data up to its to_file, all WITHOUT the lock:
\* the uploaded file is saved (an unknown type is refused with 400), the base file
\* is read and the new table computed. gpd.read_file raises when the base file is
\* missing, or when the uploaded zoning layer cannot be read (plu, ok = FALSE);
\* the handler then answers 500.
StartUpload(t, ok) ==
    /\ upload.pc = "idle"
    /\ upload.n < MaxUploads
    /\ IF t = "other"
       THEN /\ upload' = [ Answered(400) EXCEPT !.n = @ + 1 ]
            /\ synced' = synced
       ELSE IF ~BASE_GEOJSON.exists \/ (t = "plu" /\ ~ok)
       THEN /\ upload' = [ Answered(500) EXCEPT !.n = @ + 1 ]
            /\ synced' = synced
       ELSE /\ upload' = [ pc |-> "to_file", status |-> 0, n |-> upload.n + 1,
                           gdf |-> enrich_data(BASE_GEOJSON.rows, t, ok) ]
            /\ synced' = FALSE
    /\ UNCHANGED << call, GLOBAL_GDF, BASE_GEOJSON, PARCELS_JSON, DATA_LOCK, fetch, loaded_ids, last_writer >>

\* analyzer.py line 157: gdf.to_file(base_geojson_path), still without the lock.
\* When it raises (ok = FALSE) the handler answers 500.
EnrichToFile(ok) ==
    /\ upload.pc = "to_file"
    /\ IF ok
       THEN /\ BASE_GEOJSON' = [ exists |-> TRUE, rows |-> ToFile(upload.gdf) ]
            /\ upload' = [ upload EXCEPT !.pc = "reload", !.gdf = << >> ]
       ELSE /\ BASE_GEOJSON' = BASE_GEOJSON
            /\ upload' = Answered(500)
    /\ synced' = FALSE
    /\ UNCHANGED << call, GLOBAL_GDF, PARCELS_JSON, DATA_LOCK, fetch,
                    loaded_ids, last_writer >>

\* server.py line 307: `with DATA_LOCK:` entered.
AcquireReload ==
    /\ upload.pc = "reload"
    /\ LockAvailable("upload")
    /\ DATA_LOCK' = "upload"
    /\ upload' = [ upload EXCEPT !.pc = "locked_reload" ]
    /\ synced' = FALSE
    /\ UNCHANGED << call, GLOBAL_GDF, BASE_GEOJSON, PARCELS_JSON, fetch,
                    loaded_ids, last_writer >>

\* The table upload_file installs: the base file as it is on disk.
ReloadedTable(features) == ReadFile(features)

\* Lines 310-312: GLOBAL_GDF = gpd.read_file(BASE_GEOJSON), the lock is released,
\* the handler answers 200.
Reload ==
    /\ upload.pc = "locked_reload"
    /\ GLOBAL_GDF' = [ isNone |-> FALSE, rows |-> ReloadedTable(BASE_GEOJSON.rows) ]
    /\ DATA_LOCK' = "free"
    /\ upload' = Answered(200)
    /\ synced' = TRUE
    /\ UNCHANGED << call, BASE_GEOJSON, PARCELS_JSON, fetch, loaded_ids,
                    last_writer >>

-----------------------------------------------------------------------------
(* api_parcels *)

\* Lines 180-183: what a bulk read answers: the cached PARCELS_JSON, or 500 when
\* there is none.
ApiResponse ==
    IF PARCELS_JSON.isNone
    THEN [ status |-> 500, body |-> << >> ]
    ELSE [ status |-> 200, body |-> PARCELS_JSON.rows ]

\* api_parcels takes no lock and changes nothing: its answer is ApiResponse of the
\* state it runs in.
ApiParcels == UNCHANGED vars

-----------------------------------------------------------------------------
(* agent_tools.py: compute_slope *)

MaxProbes == 6

\* A value of a decoded JSON document: a number, null, a string or a boolean
\* (True is 1 and False is 0 in Python arithmetic).
J(t, v) == [ t |-> t, v |-> v ]
Null == J("null", 0)

\* The values on which Python arithmetic (-, /, abs, round, comparison with a
\* number) does not raise TypeError: int, float and bool.
IsNumeric(z) == z.t \in {"num", "bool"}

\* The z values the altimetry service may give for one point.
ZValues == { J("num", 100), J("num", 111), Null, J("str", 0), J("bool", 1) }

\* What get_elevation_points returns: None when the request, the decoding or the
\* extraction of 'z' raised, else the list of the z values of the answer.
ElevationAnswers ==
    { None } \cup { Some(zs) : zs \in UNION { [ 1..n -> ZValues ] : n \in 0..MaxProbes } }

Abs(x) == IF x < 0 THEN -x ELSE x
Max(x, y) == IF x >= y THEN x ELSE y

\* round((dz / (2 * 11.0)) * 100, 1), counted in tenths of a percent (no dz gives
\* a tie).
SlopeTenths(dz) == (1000 * dz + 11) \div 22

\* compute_slope, lines 66-92, on the answer of get_elevation_points: the pair
\* (slope, z_c). `not zs` covers None and the empty list; unpacking a list that
\* has not five items raises ValueError, arithmetic on a value that is not
\* numeric raises TypeError, and both are caught by `except Exception`.
compute_slope(answer) ==
    IF answer = None \/ answer[1] = << >> THEN << None, None >>
    ELSE LET zs == answer[1] IN
         IF Len(zs) # 5 THEN << None, None >>
         ELSE IF \E k \in 1..5 : ~IsNumeric(zs[k]) THEN << None, None >>
         ELSE << Some(SlopeTenths(Max(Abs(zs[2].v - zs[3].v), Abs(zs[4].v - zs[5].v)))),
                 Some(zs[1].v) >>

\* compute_slope is called on one answer of the altimetry service.
CallComputeSlope ==
    /\ call = NoCall
    /\ \E answer \in ElevationAnswers :
         call' = [ fn |-> "compute_slope", arg |-> answer,
                   result |-> compute_slope(answer) ]
    /\ UNCHANGED << GLOBAL_GDF, BASE_GEOJSON, PARCELS_JSON, DATA_LOCK, fetch, upload,
                    loaded_ids, synced, last_writer >>

-----------------------------------------------------------------------------
(* agent_tools.py: get_land_price_estimate *)

MaxTransactions == 4

\* The 'properties' of one transaction of the land-value service.
Transaction(nature, lots, valeur, surface) ==
    [ nature_mutation |-> nature, lots |-> lots,
      valeur_fonciere |-> valeur, surface_terrain |-> surface ]

\* The transactions the service may list: bare land sold at 300, 500, 225.5 and
\* 224.5 per m2; a sale with a house on it; an exchange; land at 5000 and at
\* exactly 10 per m2; a sale with no surface; a sale of a house whose surface is
\* given as text.
Transactions ==
    { Transaction("Vente", << >>, J("num", 30000), J("num", 100)),
      Transaction("Vente", << "Terrain" >>, J("num", 50000), J("num", 100)),
      Transaction("Vente", << >>, J("num", 45100), J("num", 200)),
      Transaction("Vente", << >>, J("num", 44900), J("num", 200)),
      Transaction("Vente", << "Terrain", "Maison" >>, J("num", 80000), J("num", 100)),
      Transaction("Echange", << >>, J("num", 40000), J("num", 100)),
      Transaction("Vente", << >>, J("num", 500000), J("num", 100)),
      Transaction("Vente", << >>, J("num", 1000), J("num", 100)),
      Transaction("Vente", << >>, J("num", 60000), Null),
      Transaction("Vente", << "Maison" >>, J("num", 70000), J("str", 0)) }

\* What the service answers: no usable answer (the request raised or was not
\* ok), or the list of its features.
PriceAnswers ==
    { None } \cup
    { Some(fs) : fs \in UNION { [ 1..n -> Transactions ] : n \in 0..MaxTransactions } }

\* Python truth value of a decoded JSON value: None, 0 and False are false; the
\* strings of the answers are not empty.
Truthy(z) == z.t # "null" /\ (z.t \in {"num", "bool"} => z.v # 0)

Built(f) ==
    \E k \in 1..Len(f.lots) : f.lots[k] \in {"Maison", "Appartement", "Local industriel"}

\* Lines 194-214: the transaction goes past `if valeur and surface and surface > 0`.
\* `surface > 0` is evaluated only when both are truthy.
HasPriceAndSurface(f) ==
    /\ f.nature_mutation = "Vente"
    /\ Truthy(f.valeur_fonciere) /\ Truthy(f.surface_terrain)
    /\ IsNumeric(f.surface_terrain) /\ f.surface_terrain.v > 0

\* The transaction makes the loop raise TypeError: `surface > 0` on a surface that
\* is text, or `valeur / surface` on a price that is text.
Raises(f) ==
    /\ f.nature_mutation = "Vente"
    /\ Truthy(f.valeur_fonciere) /\ Truthy(f.surface_terrain)
    /\ \/ ~IsNumeric(f.surface_terrain)
       \/ (f.surface_terrain.v > 0 /\ ~Built(f) /\ ~IsNumeric(f.valeur_fonciere))

\* Lines 220-226: pm2 = valeur / surface is appended when 10 < pm2 < 2000. A price
\* per m2 is kept as the pair << valeur, surface >>.
Appended(f) ==
    /\ HasPriceAndSurface(f)
    /\ ~Built(f)
    /\ 10 * f.surface_terrain.v < f.valeur_fonciere.v
    /\ f.valeur_fonciere.v < 2000 * f.surface_terrain.v

Pm2(f) == << f.valeur_fonciere.v, f.surface_terrain.v >>

\* p <= q for two prices per m2 with positive surfaces.
Leq(p, q) == p[1] * q[2] <= q[1] * p[2]

RECURSIVE Insert(_, _)
Insert(p, sorted) ==
    IF sorted = << >> THEN << p >>
    ELSE IF Leq(p, Head(sorted)) THEN << p >> \o sorted
    ELSE << Head(sorted) >> \o Insert(p, Tail(sorted))

\* prices_m2.sort(): ascending.
RECURSIVE Sort(_)
Sort(ps) == IF ps = << >> THEN << >> ELSE Insert(Head(ps), Sort(Tail(ps)))

\* round(x) of Python 3 for x = p[1] / p[2] >= 0: to the nearest integer, a half
\* to the even one.
Round(p) ==
    LET q == p[1] \div p[2]
        r == p[1] % p[2]
    IN  IF 2 * r < p[2] THEN q
        ELSE IF 2 * r > p[2] THEN q + 1
        ELSE IF q % 2 = 0 THEN q ELSE q + 1

\* prices_m2[len(prices_m2) // 2]: the index, counted from 0.
MedianIndex(n) == n \div 2

\* The list prices_m2 after the loop over the features.
PricesM2(fs) ==
    LET kept == SelectSeq(fs, Appended)
    IN  [ k \in 1..Len(kept) |-> Pm2(kept[k]) ]

\* get_land_price_estimate, lines 179-237, on the answer of the service. An
\* exception anywhere in the loop leaves the try block, and the function returns
\* None.
get_land_price_estimate(answer) ==
    IF answer = None THEN None
    ELSE IF \E k \in 1..Len(answer[1]) : Raises(answer[1][k]) THEN None
    ELSE LET prices_m2 == PricesM2(answer[1]) IN
         IF prices_m2 = << >> THEN None
         ELSE Some(Round(Sort(prices_m2)[MedianIndex(Len(prices_m2)) + 1]))

\* get_land_price_estimate is called on one answer of the land-value service.
CallGetLandPriceEstimate ==
    /\ call = NoCall
    /\ \E answer \in PriceAnswers :
         call' = [ fn |-> "get_land_price_estimate", arg |-> answer,
                   result |-> get_land_price_estimate(answer) ]
    /\ UNCHANGED << GLOBAL_GDF, BASE_GEOJSON, PARCELS_JSON, DATA_LOCK, fetch, upload,
                    loaded_ids, synced, last_writer >>

-----------------------------------------------------------------------------
(* Specifications *)

FetchStep(c) ==
    \/ \E id \in RequestIds : StartFetch(c, id)
    \/ AcquireLookup(c)
    \/ Lookup(c)
    \/ ComputeSlope(c)
    \/ GetAddress(c)
    \/ GetLandPrice(c)
    \/ AcquireWrite(c)
    \/ SetSlopeMean(c)
    \/ SetAddress(c)
    \/ SetDistToHub(c)
    \/ SetEstPriceM2(c)

UploadStep ==
    \/ \E t \in UploadTypes : \E ok \in BOOLEAN : StartUpload(t, ok)
    \/ \E ok \in BOOLEAN : EnrichToFile(ok)
    \/ AcquireReload
    \/ Reload

\* Every handler, on any schedule, with file writes that may fail.
Next ==
    \/ \E c \in Threads : FetchStep(c)
    \/ \E c \in Threads : \E ok \in BOOLEAN : SaveToFile(c, ok)
    \/ UploadStep
    \/ ApiParcels

Spec == Init /\ [][Next]_vars

\* Enrichment calls and bulk reads alone: no upload re-analysis runs (bulk
\* operations are not interleaved with live enrichment), and the disk takes
\* every write.
NextEnrich ==
    \/ \E c \in Threads : FetchStep(c)
    \/ \E c \in Threads : SaveToFile(c, TRUE)
    \/ ApiParcels

SpecEnrich == Init /\ [][NextEnrich]_vars

\* A step of a call in progress on thread c: taking the lock when it is free,
\* code running, or a remote call that returns or times out.
Running(c) ==
    \/ AcquireLookup(c)
    \/ Lookup(c)
    \/ ComputeSlope(c)
    \/ GetAddress(c)
    \/ GetLandPrice(c)
    \/ AcquireWrite(c)
    \/ SetSlopeMean(c)
    \/ SetAddress(c)
    \/ SetDistToHub(c)
    \/ SetEstPriceM2(c)
    \/ \E ok \in BOOLEAN : SaveToFile(c, ok)

\* A thread that can go on does go on: every remote call returns or times out, a
\* thread that holds the lock goes on to release it, and a thread waiting for
\* the lock gets it once it stays free (the threads and uploads competing for it
\* are finitely many, so weak fairness is all the fair lock is needed for).
Fairness ==
    /\ \A c \in Threads : WF_vars(Running(c))
    /\ WF_vars(Reload)

SpecLive == Init /\ [][Next]_vars /\ Fairness

\* The functions of agent_tools.py called directly, on every answer the remote
\* services may give, with the server idle.
NextTools ==
    \/ CallComputeSlope
    \/ CallGetLandPriceEstimate

SpecTools == Init /\ [][NextTools]_vars

\* The bulk analysis of analyzer.py called directly, with the server idle.
NextBulk ==
    \/ CallCalculateBuildable
    \/ CallEnrichData

SpecBulk == Init /\ [][NextBulk]_vars

-----------------------------------------------------------------------------
(* Properties *)

\* The positions of agent_fetch at which the handler is inside (or about to
\* return from) a remote call.
RemotePcs == {"compute_slope", "get_address", "get_land_price_estimate"}

\* The positions of agent_fetch inside its second `with DATA_LOCK:` block.
WritePcs == {"set_slope_mean", "set_address", "set_dist_to_hub",
             "set_est_price_m2", "to_file"}

\* Thread c took the step.
StepOf(c) == fetch'[c] # fetch[c]

\* The four enriched fields of a row, and the four values thread c computed.
Enriched(r) == << r.slope_mean, r.address, r.dist_to_hub, r.est_price_m2 >>
Computed(c) == << fetch[c].slope, fetch[c].address, fetch[c].dist, fetch[c].price_m2 >>

\* Some row of `rows` has the id P and holds the four values thread c computed.
HoldsValuesOf(rows, c) ==
    \E k \in 1..Len(rows) :
        /\ rows[k].id = Some(fetch[c].parcel_id)
        /\ Enriched(rows[k]) = Computed(c)

\* C1: a field write of an enrichment call for parcel P never lands on a row
\* with a different id: every row of another parcel is, after the write, what it
\* was before it, also when the table was replaced between the call's lookup and
\* its write.
C1_WriteLandsOnRequestedParcel ==
    [][ \A c \in Threads :
          (fetch[c].pc \in WritePcs /\ StepOf(c)) =>
              \A k \in 1..Len(GLOBAL_GDF'.rows) :
                  (/\ k <= Len(GLOBAL_GDF.rows)
                   /\ GLOBAL_GDF'.rows[k].id # None
                   /\ GLOBAL_GDF'.rows[k].id # Some(fetch[c].parcel_id))
                      => GLOBAL_GDF'.rows[k] = GLOBAL_GDF.rows[k] ]_vars

\* C2: a thread that holds DATA_LOCK is never at a remote call (elevation probe,
\* reverse geocoder, land-price query), and the upload thread holds it only in
\* its reload block.
C2_NoRemoteCallUnderLock ==
    /\ \A c \in Threads : DATA_LOCK = c => fetch[c].pc \notin RemotePcs
    /\ DATA_LOCK = "upload" => upload.pc = "locked_reload"

\* A thread is at a remote call, past its own lookup, while another thread holds
\* the lock.
C2_Witness ==
    \E c, d \in Threads :
        /\ c # d
        /\ fetch[c].pc \in RemotePcs
        /\ fetch[c].geom # None
        /\ DATA_LOCK = d

\* C3: the write phase is all-or-nothing: when the handler leaves it, either it
\* answers 200, the row of the parcel holds the four computed values and the file
\* is the persisted table, or the file is unchanged and no row of the table holds
\* the slope the call computed.
C3_WritePhaseAllOrNothing ==
    [][ \A c \in Threads :
          (fetch[c].pc = "to_file" /\ StepOf(c)) =>
              \/ /\ fetch'[c].status = 200
                 /\ HoldsValuesOf(GLOBAL_GDF'.rows, c)
                 /\ BASE_GEOJSON'.rows = ToFile(GLOBAL_GDF'.rows)
              \/ /\ BASE_GEOJSON' = BASE_GEOJSON
                 /\ \A k \in 1..Len(GLOBAL_GDF'.rows) :
                        GLOBAL_GDF'.rows[k].slope_mean # fetch[c].slope ]_vars

\* Thread c's call ended, and neither for want of an id or of the parcel nor for
\* want of a slope.
ExistsWithSlope(c) ==
    /\ fetch[c].pc = "done"
    /\ fetch[c].status \notin {400, 404, 502}

\* C4: with enrichment calls alone, no row ever holds a value computed by a call
\* for another parcel; and once all calls, made for distinct parcels that exist
\* and with a slope obtained, have ended, every call answered 200 and every
\* parcel's row holds exactly the four values its own call computed.
C4_DistinctParcelsKeepOwnValues ==
    /\ \A c \in Threads : \A k \in 1..Len(GLOBAL_GDF.rows) :
           (fetch[c].slope # None /\ GLOBAL_GDF.rows[k].slope_mean = fetch[c].slope)
               => GLOBAL_GDF.rows[k].id = Some(fetch[c].parcel_id)
    /\ ( /\ ~GLOBAL_GDF.isNone
         /\ \A c \in Threads : ExistsWithSlope(c)
         /\ \A c, d \in Threads : c # d => fetch[c].parcel_id # fetch[d].parcel_id )
       => \A c \in Threads :
              /\ fetch[c].status = 200
              /\ HoldsValuesOf(GLOBAL_GDF.rows, c)

\* Both calls, for two parcels whose labels are not their positions, have
\* answered 200.
C4_Witness ==
    /\ \A c \in Threads : fetch[c].status = 200 /\ HoldsValuesOf(GLOBAL_GDF.rows, c)
    /\ { fetch[c].idx : c \in Threads } = {0, 3}
    /\ fetch["t1"].parcel_id # fetch["t2"].parcel_id

\* C5: with enrichment calls alone, once two calls for the same parcel have both
\* answered 200, the parcel's four enriched fields are, in memory and in the
\* file, the four values of the call whose write phase ran last.
C5_SameParcelLastWriterWins ==
    \A c, d \in Threads :
        ( /\ c # d
          /\ fetch[c].status = 200 /\ fetch[d].status = 200
          /\ fetch[c].parcel_id = fetch[d].parcel_id
          /\ last_writer = c )
        => /\ HoldsValuesOf(GLOBAL_GDF.rows, c)
           /\ HoldsValuesOf(BASE_GEOJSON.rows, c)
           /\ \A k \in 1..Len(GLOBAL_GDF.rows) :
                  GLOBAL_GDF.rows[k].id = Some(fetch[c].parcel_id)
                      => Enriched(GLOBAL_GDF.rows[k]) = Computed(c)

\* Two calls for the same parcel both answered 200 with different values, and
\* the first to write was not the last.
C5_Witness ==
    /\ fetch["t1"].status = 200 /\ fetch["t2"].status = 200
    /\ fetch["t1"].parcel_id = fetch["t2"].parcel_id
    /\ Computed("t1") # Computed("t2")
    /\ fetch["t1"].address # None /\ fetch["t2"].address = None

C7_TableIdsNeverChange ==
    IdsOf(GLOBAL_GDF.rows) = loaded_ids

\* C8: a bulk read that starts after an enrichment call answered 200 returns the
\* table with the fields the call wrote (stated for the states in which the
\* in-memory table still holds them).
C8_BulkReadSeesSuccessfulWrites ==
    \A c \in Threads :
        (fetch[c].status = 200 /\ HoldsValuesOf(GLOBAL_GDF.rows, c))
            => HoldsValuesOf(ApiResponse.body, c)

\* C9: a call whose slope computation answered None goes on to answer 502
\* without ever writing: each of its steps leaves the in-memory table and the
\* file as they are, whatever the geocoder and the price query answer.
C9_SlopeUnavailableWritesNothing ==
    [][ \A c \in Threads :
          ( /\ fetch[c].pc \in {"get_address", "get_land_price_estimate"}
            /\ fetch[c].slope = None
            /\ StepOf(c) )
          => /\ GLOBAL_GDF' = GLOBAL_GDF
             /\ BASE_GEOJSON' = BASE_GEOJSON
             /\ fetch'[c].slope = None
             /\ fetch'[c].pc \in {"get_land_price_estimate", "done"}
             /\ fetch'[c].pc = "done" => fetch'[c].status = 502 ]_vars

\* A call ended with 502 although address, distance and price were obtained.
C9_Witness ==
    \E c \in Threads :
        /\ fetch[c].pc = "done" /\ fetch[c].status = 502
        /\ fetch[c].slope = None
        /\ fetch[c].address # None /\ fetch[c].dist # None /\ fetch[c].price_m2 # None

\* C10: the lookup of an id the table does not hold ends the call at once with
\* 404: no remote call was made, the table and the file are unchanged, and the
\* lock is free.
C10_NotFoundFailsImmediately ==
    [][ \A c \in Threads :
          ( /\ fetch[c].pc = "locked_lookup"
            /\ ~GLOBAL_GDF.isNone
            /\ Some(fetch[c].parcel_id) \notin IdsOf(GLOBAL_GDF.rows)
            /\ StepOf(c) )
          => /\ fetch'[c].pc = "done"
             /\ fetch'[c].status = 404
             /\ fetch'[c].remote = 0
             /\ GLOBAL_GDF' = GLOBAL_GDF
             /\ BASE_GEOJSON' = BASE_GEOJSON
             /\ DATA_LOCK' = "free" ]_vars

\* A call answered 404 without a remote call, and the lock is free.
C10_Witness ==
    \E c \in Threads :
        /\ fetch[c].pc = "done" /\ fetch[c].status = 404
        /\ fetch[c].remote = 0
        /\ DATA_LOCK = "free"

\* C11: every step that changes the in-memory table or rewrites the durable file
\* is taken by the thread that holds DATA_LOCK when it takes it (the enrichment
\* write and persist, the re-analysis file rewrite and the table reload).
C11_MutationsHoldLock ==
    [][ (GLOBAL_GDF' # GLOBAL_GDF \/ BASE_GEOJSON' # BASE_GEOJSON)
          => \/ \E c \in Threads : DATA_LOCK = c /\ StepOf(c)
             \/ DATA_LOCK = "upload" /\ upload' # upload ]_vars

\* The successive positions of one enrichment call.
PhaseOrder ==
    { << "idle", "lookup" >>, << "idle", "done" >>,
      << "lookup", "locked_lookup" >>,
      << "locked_lookup", "compute_slope" >>, << "locked_lookup", "done" >>,
      << "compute_slope", "get_address" >>,
      << "get_address", "get_land_price_estimate" >>,
      << "get_land_price_estimate", "write" >>,
      << "get_land_price_estimate", "done" >>,
      << "write", "set_slope_mean" >>,
      << "set_slope_mean", "set_address" >>,
      << "set_address", "set_dist_to_hub" >>,
      << "set_dist_to_hub", "set_est_price_m2" >>,
      << "set_est_price_m2", "to_file" >>,
      << "to_file", "done" >> }

\* C12: every step of an enrichment call moves it forward in the order lookup
\* under the lock, compute without it, write under it, done; it holds the lock
\* exactly in its lookup block and in its write block (two intervals, as the
\* order has no way back); the compute phase starts only with a parcel the lookup
\* found, the write block only with a slope; and the call leaves the write block
\* only through to_file, which wrote the table when the answer is 200.
C12_PhasesInOrder ==
    [][ \A c \in Threads :
          StepOf(c) =>
            /\ << fetch[c].pc, fetch'[c].pc >> \in PhaseOrder
            /\ (DATA_LOCK' = c) <=> (fetch'[c].pc \in {"locked_lookup"} \cup WritePcs)
            /\ fetch'[c].pc = "compute_slope" =>
                   /\ Some(fetch[c].parcel_id) \in IdsOf(GLOBAL_GDF.rows)
                   /\ fetch'[c].idx # -1
            /\ fetch'[c].pc \in WritePcs =>
                   (fetch'[c].idx # -1 /\ fetch'[c].slope # None)
            /\ (fetch[c].pc \in WritePcs /\ fetch'[c].pc \notin WritePcs) =>
                   /\ fetch[c].pc = "to_file"
                   /\ fetch'[c].status \in {200, 500}
                   /\ fetch'[c].status = 200 =>
                          BASE_GEOJSON'.rows = ToFile(GLOBAL_GDF.rows) ]_vars

\* One call went through every phase and answered 200 with the file written,
\* another ended in its compute phase for want of a slope.
C12_Witness ==
    \E c, d \in Threads :
        /\ fetch[c].pc = "done" /\ fetch[c].status = 200
        /\ HoldsValuesOf(BASE_GEOJSON.rows, c)
        /\ fetch[d].pc = "done" /\ fetch[d].status = 502
        /\ DATA_LOCK = "free"

\* C13: with enrichment calls alone, a call that obtained a slope, 0.0 included,
\* enters its write phase whatever the geocoder and the price query answered, and
\* leaves it with 200, the row of its parcel holding, in memory and in the file,
\* the slope, the distance, and the address and the price it obtained, an
\* address or price it did not obtain being stored as absent.
C13_SlopeAloneDecidesSuccess ==
    [][ \A c \in Threads :
          StepOf(c) =>
            /\ (fetch[c].pc = "get_land_price_estimate" /\ fetch[c].slope # None)
                   => fetch'[c].pc = "write"
            /\ fetch[c].pc = "to_file" =>
                   /\ fetch'[c].status = 200
                   /\ Computed(c)[1] # None
                   /\ HoldsValuesOf(GLOBAL_GDF'.rows, c)
                   /\ HoldsValuesOf(BASE_GEOJSON'.rows, c) ]_vars

\* A call with the slope 0.0 and neither address nor price answered 200, and the
\* row of its parcel holds the slope 0.0, no address and no price.
C13_Witness ==
    \E c \in Threads :
        /\ fetch[c].pc = "done" /\ fetch[c].status = 200
        /\ fetch[c].slope = Some(0)
        /\ fetch[c].address = None /\ fetch[c].price_m2 = None
        /\ HoldsValuesOf(GLOBAL_GDF.rows, c)

\* C14: compute_slope returns a slope only for an answer of exactly five values
\* that are all numbers; for a failed query, any other count, or a value that is
\* not a number (null, a string, a boolean) it returns None for slope and
\* elevation alike.
C14_SlopeOnlyFromFiveNumbers ==
    call.fn = "compute_slope" =>
        LET five == /\ call.arg # None
                    /\ Len(call.arg[1]) = 5
                    /\ \A k \in 1..5 : call.arg[1][k].t = "num"
        IN  /\ ~five => call.result = << None, None >>
            /\ five => (call.result[1] # None /\ call.result[2] # None)

\* The index, counted from 0, of the single middle value of n sorted values for
\* odd n, of the lower of the two middle values for even n.
LowerMiddleIndex(n) == (n - 1) \div 2

\* C15: when the filtered list is not empty, the estimate is the rounded value at
\* the lower-middle index of the ascending list: the lower of the two middle
\* values for an even count, the middle value for an odd one.
C15_MedianIsLowerMiddle ==
    ( /\ call.fn = "get_land_price_estimate"
      /\ call.arg # None
      /\ \A k \in 1..Len(call.arg[1]) : ~Raises(call.arg[1][k])
      /\ PricesM2(call.arg[1]) # << >> )
    => LET sorted == Sort(PricesM2(call.arg[1]))
       IN  call.result = Some(Round(sorted[LowerMiddleIndex(Len(sorted)) + 1]))

\* The filters as the contract lists them: a sale, no lot that is a house, a flat
\* or an industrial building, a land surface that is a positive number, and a
\* price per m2 strictly between 10 and 2000.
PassesEveryFilter(f) ==
    /\ f.nature_mutation = "Vente"
    /\ \A k \in 1..Len(f.lots) :
           f.lots[k] \notin {"Maison", "Appartement", "Local industriel"}
    /\ f.surface_terrain.t = "num" /\ f.surface_terrain.v > 0
    /\ f.valeur_fonciere.t = "num"
    /\ 10 * f.surface_terrain.v < f.valeur_fonciere.v
    /\ f.valeur_fonciere.v < 2000 * f.surface_terrain.v

\* C16: the estimate is the one the function gives for the transactions that
\* pass every filter, taken alone, so that a transaction failing a filter changes
\* nothing; it is None when none passes, and never 0.
C16_OnlyPassingTransactionsCount ==
    (call.fn = "get_land_price_estimate" /\ call.arg # None)
    => LET passing == SelectSeq(call.arg[1], PassesEveryFilter)
       IN  /\ call.result = get_land_price_estimate(Some(passing))
           /\ passing = << >> => call.result = None
           /\ call.result # Some(0)

\* C17: after calculate_buildable without a zoning layer, and after enrich_data
\* without a zoning path, every parcel's buildable_area_sqm is 0, whatever it
\* was before.
C17_NoZoningGivesZero ==
    ( \/ call.fn = "calculate_buildable" /\ call.arg[1] = None
      \/ call.fn = "enrich_data" /\ call.arg[1] # "plu" )
    => \A k \in 1..Len(call.result) : call.result[k].buildable_area_sqm = Some(0)

\* The fields of a row an enrichment call has no business with.
Kept(r) ==
    << r.label, r.id, r.geometry, r.total_area_sqm, r.buildable_area_sqm, r.owner_name >>

\* C18: a step of a call for parcel P adds or removes no row, leaves every row
\* of another parcel as it is and leaves id, geometry, area, buildable area and
\* owner of P's row as they are; outside its write block (so in every call that
\* ends NotFound or for want of a slope) it changes neither the table nor the
\* file; and the file changes only into the table as persisted.
C18_OnlyEnrichedFieldsOfTheParcelChange ==
    [][ \A c \in Threads :
          StepOf(c) =>
            /\ Len(GLOBAL_GDF'.rows) = Len(GLOBAL_GDF.rows)
            /\ \A k \in 1..Len(GLOBAL_GDF.rows) :
                   /\ Kept(GLOBAL_GDF'.rows[k]) = Kept(GLOBAL_GDF.rows[k])
                   /\ GLOBAL_GDF.rows[k].id # Some(fetch[c].parcel_id)
                          => GLOBAL_GDF'.rows[k] = GLOBAL_GDF.rows[k]
            /\ fetch[c].pc \notin WritePcs =>
                   (GLOBAL_GDF' = GLOBAL_GDF /\ BASE_GEOJSON' = BASE_GEOJSON)
            /\ fetch'[c].status \in {400, 404, 502} =>
                   (GLOBAL_GDF' = GLOBAL_GDF /\ BASE_GEOJSON' = BASE_GEOJSON)
            /\ BASE_GEOJSON' # BASE_GEOJSON =>
                   BASE_GEOJSON'.rows = ToFile(GLOBAL_GDF'.rows) ]_vars

\* C19: every enrichment call that has started ends with an answer, and a call
\* that has ended does not hold the lock, whichever way it ended.
C19_CallsEndAndFreeTheLock ==
    /\ [](\A c \in Threads : fetch[c].pc = "done" => DATA_LOCK # c)
    /\ \A c \in Threads : (fetch[c].pc # "idle") ~> (fetch[c].pc = "done")

\* One call ended on the exception of its write phase, the other went through
\* the lock after it and answered 200, and the lock is free.
C19_Witness ==
    \E c, d \in Threads :
        /\ fetch[c].pc = "done" /\ fetch[c].status = 500 /\ fetch[c].remote = 3
        /\ fetch[d].pc = "done" /\ fetch[d].status = 200
        /\ last_writer = d
        /\ DATA_LOCK = "free"

=============================================================================
